---------------------------- MODULE Spec2Model ----------------------------
(***************************************************************************)
(* Exchange settlement examples of highload-wallet-contract-v3:            *)
(*   - the deposit monitor     (examples/exchange-deposit-monitor.ts)      *)
(*   - the batch withdrawal processor (examples/exchange-batch-withdrawal) *)
(*   - the deposit address generator (examples/exchange-address-generator) *)
(* Each component is a state machine over its in-memory database; the      *)
(* components share the wall clock `now` (Date.now(), in milliseconds).    *)
(***************************************************************************)
EXTENDS Integers, Sequences, FiniteSets, TLC

VARIABLES
    now,              \* Date.now(), milliseconds
    \* ---- DepositDatabase / DepositMonitor
    processedTxs,     \* DepositDatabase.processedTxs : Set<string>
    pendingDeposits,  \* DepositDatabase.pendingDeposits : Map<hash, UserDeposit>
    lastProcessedLt,  \* DepositMonitor.lastProcessedLt (0 stands for null)
    chain,            \* the transactions of the monitored address the client can return
    credited,         \* history: number of creditUserAccount calls that returned, per hash
    firstSeen,        \* history of the poll loop: when a hash first entered pendingDeposits
    lastPoll,         \* history of the poll loop: time and outcome of the last pollTransactions,
                      \* the hashes it was given and those whose processing threw, the
                      \* deposits it credited and those whose try block threw
    monitor,          \* DepositMonitor.running and the position of start() in its loop;
                      \* loops: the positions of the loops of several start() calls
    \* ---- WithdrawalDatabase / BatchWithdrawalProcessor
    pendingWithdrawals,   \* WithdrawalDatabase.pendingWithdrawals, in insertion order
    processedWithdrawals, \* WithdrawalDatabase.processedWithdrawals : Set<string>
    lastQueryId,          \* BatchWithdrawalProcessor.lastQueryId
    calls,                \* the processBatch calls in progress: position and locals of each
    added,                \* number of addTestWithdrawal calls so far
    sendCalls,            \* history of the wallet: every wallet.sendBatch call, in order
    completions,          \* history: number of markWithdrawalCompleted calls, per withdrawal id
    failedCalls,          \* history: the withdrawal ids passed to markWithdrawalFailed
    lastResult,           \* how the last processBatch call ended
    \* ---- AddressMappingDatabase / ExchangeAddressGenerator
    variant,              \* which text of generateDepositAddress runs
    digests,              \* the sha256 digests of this run, per user id
    userToAddress,        \* AddressMappingDatabase.userToAddress
    addressToUser,        \* AddressMappingDatabase.addressToUser
    userToSubwalletId,    \* AddressMappingDatabase.userToSubwalletId
    nextUserId,           \* AddressMappingDatabase.nextUserId
    genCalls,             \* the generateDepositAddress calls in progress, per caller
    allocReturns          \* history: how the last generateDepositAddress call of each caller ended

depositVars == <<processedTxs, pendingDeposits, lastProcessedLt, chain, credited, firstSeen, lastPoll,
                 monitor>>

withdrawalVars == <<pendingWithdrawals, processedWithdrawals, lastQueryId, calls, added,
                    sendCalls, completions, failedCalls, lastResult>>

addressVars == <<variant, digests, userToAddress, addressToUser, userToSubwalletId, nextUserId,
                 genCalls, allocReturns>>

vars == <<now, depositVars, withdrawalVars, addressVars>>

(***************************************************************************)
(* Bounds of the model.                                                    *)
(***************************************************************************)
MaxTicks == 8        \* the clock stops after MaxTicks ticks
MaxCredits == 2      \* creditUserAccount is counted up to MaxCredits per hash
MaxDelivered == 2    \* transactions returned by one getTransactions call
MaxStarts == 2       \* start() calls on one monitor
MaxShift == 1        \* the query id space: shift in 0..MaxShift
MaxBitNumber == 2    \* the query id space: bit number in 0..MaxBitNumber
MaxAdded == 2        \* addTestWithdrawal calls
MaxSendFailures == 2 \* wallet.sendBatch calls that throw
MaxWindowTicks == 2  \* half timeout windows the clock advances in the restart model

(***************************************************************************)
(* Configuration of the deposit monitor.                                   *)
(***************************************************************************)
POLL_INTERVAL_MS == 10000
MIN_CONFIRMATIONS == 3
MIN_DEPOSIT_AMOUNT == 1000000000
BLOCK_MS == 5000            \* "~5s per block" in processPendingDeposits
MEMO_PREFIX_LEN == 8        \* memo.substring(8)

\* The clock advances in steps of half a block.
TickMs == BLOCK_MS \div 2

(***************************************************************************)
(* Strings are sequences of characters; null is a value no string equals.  *)
(***************************************************************************)
Null == <<"null">>

\* new Map()
EmptyMap == [h \in {} |-> 0]

Truthy(s) == s # Null /\ s # <<>>

DEPOSIT_PREFIX == <<"D", "E", "P", "O", "S", "I", "T", ":">>

startsWith(s, p) == Len(s) >= Len(p) /\ SubSeq(s, 1, Len(p)) = p

substring(s, from) == SubSeq(s, from + 1, Len(s))

(***************************************************************************)
(* The transactions the chain client can deliver.  A body is NoBody or a   *)
(* record: hasOp (at least 32 bits), op, text (the string tail).           *)
(***************************************************************************)
NoBody == [hasOp |-> FALSE, op |-> 0, text |-> <<>>, present |-> FALSE]

TextBody(op, text) == [hasOp |-> TRUE, op |-> op, text |-> text, present |-> TRUE]

Tx(hash, lt, inMessage, coins, descType, aborted, body) ==
    [hash |-> hash, lt |-> lt, inMessage |-> inMessage, src |-> <<"E", "Q", "s">>,
     coins |-> coins, descType |-> descType, aborted |-> aborted, body |-> body]

Txs ==
    { Tx("h1", 1, "internal", MIN_DEPOSIT_AMOUNT, "generic", FALSE,
         TextBody(0, DEPOSIT_PREFIX \o <<"u", "1">>)),
      Tx("h2", 2, "internal", MIN_DEPOSIT_AMOUNT + 1, "generic", FALSE,
         TextBody(0, <<"u", "2">>)),
      Tx("h3", 3, "internal", MIN_DEPOSIT_AMOUNT - 1, "generic", FALSE,
         TextBody(0, DEPOSIT_PREFIX \o <<"u", "1">>)),
      Tx("h4", 4, "internal", MIN_DEPOSIT_AMOUNT, "generic", TRUE,
         TextBody(0, DEPOSIT_PREFIX \o <<"u", "1">>)),
      Tx("h5", 5, "internal", MIN_DEPOSIT_AMOUNT, "generic", FALSE, NoBody),
      Tx("h6", 6, "external-in", 0, "generic", FALSE, NoBody),
      Tx("h7", 7, "internal", MIN_DEPOSIT_AMOUNT, "tick-tock", FALSE,
         TextBody(0, DEPOSIT_PREFIX \o <<"u", "1">>)) }

Hashes == { tx.hash : tx \in Txs }

(***************************************************************************)
(* DepositDatabase                                                         *)
(***************************************************************************)
isTransactionProcessed(processed, txHash) == txHash \in processed

\* mutant: the hash is not added to the processed set
markTransactionProcessed_forgotten(processed, txHash) == processed

markTransactionProcessed(processed, txHash) == processed \cup {txHash}

\* The stub looks nothing up: it returns null for every address.
getUserByAddress(address) == Null

getUserByMemo(memo) ==
    IF startsWith(memo, DEPOSIT_PREFIX) THEN substring(memo, MEMO_PREFIX_LEN) ELSE memo

addPendingDeposit(pending, deposit) ==
    [h \in DOMAIN pending \cup {deposit.transactionHash} |->
        IF h = deposit.transactionHash THEN deposit ELSE pending[h]]

removePendingDeposit(pending, txHash) ==
    [h \in DOMAIN pending \ {txHash} |-> pending[h]]

(***************************************************************************)
(* DepositMonitor.extractComment                                           *)
(***************************************************************************)
extractComment(tx) ==
    IF tx.inMessage = "none" THEN Null
    ELSE IF ~tx.body.present THEN Null
    ELSE IF tx.body.hasOp /\ tx.body.op = 0 /\ Len(tx.body.text) >= 1 THEN tx.body.text
    ELSE Null

(***************************************************************************)
(* DepositMonitor.processTransaction, as a function of the database.       *)
(* `storeFails` is a store call throwing: the catch block swallows it and  *)
(* nothing is written.                                                     *)
(***************************************************************************)
\* mutant: the comment is consulted first
resolveUserWith_memoFirst(byAddress, comment) ==
    IF Truthy(comment) THEN getUserByMemo(comment) ELSE byAddress

\* l.163-171: `byAddress` is what the awaited getUserByAddress resolved to
resolveUserWith(byAddress, comment) ==
    IF ~Truthy(byAddress) /\ Truthy(comment) THEN getUserByMemo(comment) ELSE byAddress

resolveUser(tx) == resolveUserWith(getUserByAddress(tx.src), extractComment(tx))

newDeposit(tx, t) ==
    [userId |-> resolveUser(tx), transactionHash |-> tx.hash, amount |-> tx.coins,
     sender |-> tx.src, timestamp |-> t, confirmations |-> 0]

\* mutant: the amount check also turns away an amount equal to the minimum
processTransaction_minExclusive(db, tx, t, storeFails) ==
    IF storeFails THEN db
    ELSE IF isTransactionProcessed(db.processedTxs, tx.hash) THEN db
    ELSE IF tx.inMessage # "internal" THEN db
    ELSE IF tx.coins <= MIN_DEPOSIT_AMOUNT
         THEN [db EXCEPT !.processedTxs = markTransactionProcessed(@, tx.hash)]
    ELSE IF tx.descType # "generic" \/ tx.aborted
         THEN [db EXCEPT !.processedTxs = markTransactionProcessed(@, tx.hash)]
    ELSE IF ~Truthy(resolveUser(tx))
         THEN [db EXCEPT !.processedTxs = markTransactionProcessed(@, tx.hash)]
    ELSE [db EXCEPT !.pendingDeposits = addPendingDeposit(@, newDeposit(tx, t))]

\* the body of the try block, for a store whose getUserByAddress resolves to `byAddress`
processTransactionWith(db, tx, t, byAddress) ==
    LET userId == resolveUserWith(byAddress, extractComment(tx))
    IN  IF isTransactionProcessed(db.processedTxs, tx.hash) THEN db
        ELSE IF tx.inMessage # "internal" THEN db
        ELSE IF tx.coins < MIN_DEPOSIT_AMOUNT
             THEN [db EXCEPT !.processedTxs = markTransactionProcessed(@, tx.hash)]
        ELSE IF tx.descType # "generic" \/ tx.aborted
             THEN [db EXCEPT !.processedTxs = markTransactionProcessed(@, tx.hash)]
        ELSE IF ~Truthy(userId)
             THEN [db EXCEPT !.processedTxs = markTransactionProcessed(@, tx.hash)]
        ELSE [db EXCEPT !.pendingDeposits =
                            addPendingDeposit(@, [newDeposit(tx, t) EXCEPT !.userId = userId])]

\* mutant: a transaction whose processing threw is marked processed all the same
processTransaction_marksOnFailure(db, tx, t, storeFails) ==
    IF storeFails THEN [db EXCEPT !.processedTxs = markTransactionProcessed(@, tx.hash)]
    ELSE processTransactionWith(db, tx, t, getUserByAddress(tx.src))

processTransaction(db, tx, t, storeFails) ==
    IF storeFails THEN db
    ELSE processTransactionWith(db, tx, t, getUserByAddress(tx.src))

(***************************************************************************)
(* DepositMonitor.processPendingDeposits.  `outcome[h]` says how far the   *)
(* try block gets for deposit h: "ok", or the store call that throws.      *)
(***************************************************************************)
CreditOutcomes == {"ok", "creditFails", "markFails", "removeFails"}

estimatedConfirmations(deposit, t) == (t - deposit.timestamp) \div BLOCK_MS

\* mutant: one confirmation fewer is enough
isConfirmed_oneEarly(deposit, t) == estimatedConfirmations(deposit, t) >= MIN_CONFIRMATIONS - 1

isConfirmed(deposit, t) == estimatedConfirmations(deposit, t) >= MIN_CONFIRMATIONS

\* the deposits of this cycle that pass the confirmation test
dueNow(pending, t) == { h \in DOMAIN pending : isConfirmed(pending[h], t) }

\* the deposits of this cycle for which creditUserAccount returns
creditedNow(pending, t, outcome) ==
    { h \in DOMAIN pending : isConfirmed(pending[h], t) /\ outcome[h] # "creditFails" }

markedNow(pending, t, outcome) ==
    { h \in DOMAIN pending : isConfirmed(pending[h], t) /\ outcome[h] \in {"ok", "removeFails"} }

\* mutant: the credited deposit is not removed from the pending set
removedNow_forgotten(pending, t, outcome) == {}

removedNow(pending, t, outcome) ==
    { h \in DOMAIN pending : isConfirmed(pending[h], t) /\ outcome[h] = "ok" }

processPendingDeposits(db, t, outcome) ==
    [processedTxs |-> db.processedTxs \cup markedNow(db.pendingDeposits, t, outcome),
     pendingDeposits |->
        [h \in DOMAIN db.pendingDeposits \ removedNow(db.pendingDeposits, t, outcome) |->
            db.pendingDeposits[h]]]

(***************************************************************************)
(* HighloadQueryId: a position (shift, bitnumber) in the id space.  The    *)
(* last position of the space is kept back, so the sequence ends one       *)
(* before it.                                                              *)
(***************************************************************************)
BIT_NUMBER_SIZE == 10

QueryIdZero == [shift |-> 0, bitnumber |-> 0]

hasNext(q) == ~(q.bitnumber >= MaxBitNumber - 1 /\ q.shift = MaxShift)

getNext(q) ==
    IF q.bitnumber + 1 > MaxBitNumber
    THEN [shift |-> q.shift + 1, bitnumber |-> 0]
    ELSE [shift |-> q.shift, bitnumber |-> q.bitnumber + 1]

getQueryId(q) == q.shift * (2 ^ BIT_NUMBER_SIZE) + q.bitnumber

(***************************************************************************)
(* Configuration of the batch withdrawal processor.                        *)
(***************************************************************************)
TIMEOUT == 3600
MAX_BATCH_SIZE == 254

Min(a, b) == IF a < b THEN a ELSE b

(***************************************************************************)
(* WithdrawalRequest.  Address.parse accepts an address or throws.         *)
(***************************************************************************)
Addresses == {"EQ-well-formed", "malformed"}

addressParses(address) == address = "EQ-well-formed"

Request(id, address) ==
    [userId |-> id, address |-> address, amount |-> 1, withdrawalId |-> id]

(***************************************************************************)
(* WithdrawalDatabase                                                      *)
(***************************************************************************)
\* mutant: the slice stops one short of the limit
getPendingWithdrawals_oneShort(pending, limit) == SubSeq(pending, 1, Min(limit - 1, Len(pending)))

\* mutant: no slice(0, limit)
getPendingWithdrawals_unlimited(pending, limit) == pending

getPendingWithdrawals(pending, limit) == SubSeq(pending, 1, Min(limit, Len(pending)))

\* mutant: the completed withdrawal stays in the pending map
deleteWithdrawals_forgotten(pending, withdrawalIds) == pending

\* pendingWithdrawals.delete, for each id of `withdrawalIds`
deleteWithdrawals(pending, withdrawalIds) ==
    SelectSeq(pending, LAMBDA r : r.withdrawalId \notin withdrawalIds)

markWithdrawalCompleted(db, withdrawalId) ==
    [processedWithdrawals |-> db.processedWithdrawals \cup {withdrawalId},
     pendingWithdrawals |-> deleteWithdrawals(db.pendingWithdrawals, {withdrawalId})]

idSet(withdrawals) == { withdrawals[i].withdrawalId : i \in 1..Len(withdrawals) }

\* the loop that marks every fetched withdrawal completed, run to its end
markAllCompleted(db, withdrawals) ==
    [processedWithdrawals |-> db.processedWithdrawals \cup idSet(withdrawals),
     pendingWithdrawals |-> deleteWithdrawals(db.pendingWithdrawals, idSet(withdrawals))]

\* Map.set: a known key keeps its place, a new key goes to the end
addTestWithdrawal(pending, request) ==
    IF \E i \in 1..Len(pending) : pending[i].withdrawalId = request.withdrawalId
    THEN [i \in 1..Len(pending) |->
            IF pending[i].withdrawalId = request.withdrawalId THEN request ELSE pending[i]]
    ELSE Append(pending, request)

(***************************************************************************)
(* BatchWithdrawalProcessor                                                *)
(***************************************************************************)
Message(withdrawal) ==
    [to |-> withdrawal.address, value |-> withdrawal.amount, comment |-> withdrawal.withdrawalId]

\* mutant: a withdrawal whose address does not parse still gets a message
createWithdrawalMessages_keepsInvalid(withdrawals) ==
    [i \in 1..Len(withdrawals) |-> Message(withdrawals[i])]

\* mutant: the first address that does not parse ends the construction
createWithdrawalMessages_aborts(withdrawals) ==
    LET bad == { i \in 1..Len(withdrawals) : ~addressParses(withdrawals[i].address) }
        stop == IF bad = {} THEN Len(withdrawals) + 1
                ELSE CHOOSE i \in bad : \A j \in bad : i <= j
    IN  [i \in 1..(stop - 1) |-> Message(withdrawals[i])]

createWithdrawalMessages(withdrawals) ==
    LET parsed == SelectSeq(withdrawals, LAMBDA w : addressParses(w.address))
    IN  [i \in 1..Len(parsed) |-> Message(parsed[i])]

\* the withdrawals createWithdrawalMessages passes to markWithdrawalFailed
reportedFailed(withdrawals) ==
    { withdrawals[i].withdrawalId : i \in { j \in 1..Len(withdrawals) :
                                              ~addressParses(withdrawals[j].address) } }

\* mutant: the next id is returned but not stored
getNextQueryId_notStored(last) ==
    IF hasNext(last)
    THEN [thrown |-> FALSE, lastQueryId |-> last, queryId |-> getNext(last)]
    ELSE [thrown |-> TRUE, lastQueryId |-> last, queryId |-> last]

\* mutant: no hasNext check, the last id is handed out again
getNextQueryId_unchecked(last) ==
    IF hasNext(last)
    THEN [thrown |-> FALSE, lastQueryId |-> getNext(last), queryId |-> getNext(last)]
    ELSE [thrown |-> FALSE, lastQueryId |-> last, queryId |-> last]

getNextQueryId(last) ==
    IF hasNext(last)
    THEN [thrown |-> FALSE, lastQueryId |-> getNext(last), queryId |-> getNext(last)]
    ELSE [thrown |-> TRUE, lastQueryId |-> last, queryId |-> last]

\* one wallet.sendBatch call as the wallet sees it
SendCall(messages, queryId, createdAt, status) ==
    [queryId |-> getQueryId(queryId), ids |-> [i \in 1..Len(messages) |-> messages[i].comment],
     n |-> Len(messages), createdAt |-> createdAt, status |-> status]

WDb == [processedWithdrawals |-> processedWithdrawals, pendingWithdrawals |-> pendingWithdrawals]

Callers == {"a", "b"}

IdleCall == [pc |-> "idle", withdrawals |-> <<>>, call |-> 0]

\* a processor right after construction, `queue` loaded into its database
ProcessorWith(queue) ==
    /\ pendingWithdrawals = queue
    /\ processedWithdrawals = {}
    /\ lastQueryId = QueryIdZero
    /\ calls = [p \in Callers |-> IdleCall]
    /\ lastResult = "none"

WalletFresh ==
    /\ added = 0
    /\ sendCalls = <<>>
    /\ completions = EmptyMap
    /\ failedCalls = {}

WithdrawalIdle == ProcessorWith(<<>>) /\ WalletFresh

(***************************************************************************)
(* Configuration of the deposit address generator.                         *)
(***************************************************************************)
BASE_SUBWALLET_ID == 4269   \* 0x10ad
maxAttempts == 1000

Users == {"user_alice", "user_bob"}

\* Map.set
mapSet(map, key, value) ==
    [k \in DOMAIN map \cup {key} |-> IF k = key THEN value ELSE map[k]]

(***************************************************************************)
(* HighloadWalletV3.createFromConfig(...).address.toString(): with the     *)
(* public key, timeout and code of the generator fixed, the address is a   *)
(* function of the subwallet id, different for different ids.              *)
(***************************************************************************)
walletAddress(subwalletId) == <<"EQ", subwalletId>>

(***************************************************************************)
(* AddressMappingDatabase, as a record of its four fields.                 *)
(***************************************************************************)
EmptyAddressDb ==
    [userToAddress |-> EmptyMap, addressToUser |-> EmptyMap, userToSubwalletId |-> EmptyMap,
     nextUserId |-> 1]

createUserAddress(adb, userId, address, subwalletId) ==
    [adb EXCEPT !.userToAddress = mapSet(@, userId, address),
                !.addressToUser = mapSet(@, address, userId),
                !.userToSubwalletId = mapSet(@, userId, subwalletId)]

\* mutant: the stored address is not found
getAddressForUser_notFound(adb, userId) == Null

getAddressForUser(adb, userId) ==
    IF userId \in DOMAIN adb.userToAddress /\ Truthy(adb.userToAddress[userId])
    THEN adb.userToAddress[userId]
    ELSE Null

\* the user ids stored are non-empty strings, so `|| null` only replaces undefined
getUserForAddress(adb, address) ==
    IF address \in DOMAIN adb.addressToUser
    THEN adb.addressToUser[address]
    ELSE Null

\* ExchangeAddressGenerator.identifyUser
identifyUser(adb, address) == getUserForAddress(adb, address)

getAllMappings(adb) ==
    { [userId |-> u, address |-> adb.userToAddress[u], subwalletId |-> adb.userToSubwalletId[u]] :
        u \in { v \in DOMAIN adb.userToAddress : v \in DOMAIN adb.userToSubwalletId } }

(***************************************************************************)
(* The sha256 digests, read as an unsigned 32-bit integer.  The digests of *)
(* a run are a table: the digest of a user id with nonce n is first[user]  *)
(* for n < k and `rest` from nonce k on, and plain[user] is its digest     *)
(* without a nonce.                                                        *)
(***************************************************************************)
DigestValues == {0, 7, BASE_SUBWALLET_ID}

SwitchNonces == {1, maxAttempts - 2, maxAttempts - 1, maxAttempts}

DigestTables ==
    [first : [Users -> DigestValues], k : SwitchNonces, rest : {8}, plain : [Users -> {0, 7}]]

\* sha256(userId, baseSubwalletId, nonce).readUInt32BE(0)
digestWithNonce(table, userId, nonce) ==
    IF nonce < table.k THEN table.first[userId] ELSE table.rest

\* sha256(userId, baseSubwalletId).readUInt32BE(0)
digestPlain(table, userId) == table.plain[userId]

\* the candidate of one iteration: zero falls back to baseSubwalletId
candidate(table, userId, nonce) ==
    IF digestWithNonce(table, userId, nonce) = 0
    THEN BASE_SUBWALLET_ID
    ELSE digestWithNonce(table, userId, nonce)

\* the subwallet ids of getAllMappings()
storedSubwalletIds(adb) == { m.subwalletId : m \in getAllMappings(adb) }

\* getAllMappings().some(m => m.subwalletId === subwalletId)
collides(taken, subwalletId) == subwalletId \in taken

(***************************************************************************)
(* The do-while loop.  The iteration that starts with nonce n derives the  *)
(* candidate of n, increments nonce to n + 1, throws if n + 1 >=           *)
(* maxAttempts, and otherwise leaves the loop when the candidate collides  *)
(* with no stored subwallet id.  So the loop leaves with the candidate of  *)
(* the least n in 0..maxAttempts-2 that does not collide, and throws when  *)
(* there is none.                                                          *)
(***************************************************************************)
loopNonces == 0..(maxAttempts - 2)

\* the least nonce of `nonces` whose candidate does not collide
firstFreeNonce(taken, table, userId, nonces) ==
    CHOOSE n \in nonces :
        /\ ~collides(taken, candidate(table, userId, n))
        /\ \A m \in 0..(n - 1) : collides(taken, candidate(table, userId, m))

resolveSubwalletId(adb, table, userId) ==
    LET taken == storedSubwalletIds(adb)
    IN  IF \E n \in loopNonces : ~collides(taken, candidate(table, userId, n))
        THEN [thrown |-> FALSE,
              subwalletId |-> candidate(table, userId,
                                        firstFreeNonce(taken, table, userId, loopNonces))]
        ELSE [thrown |-> TRUE, subwalletId |-> 0]

(***************************************************************************)
(* generateDepositAddress after the existing-address check.  The function  *)
(* exists in three texts:                                                  *)
(*   "sequentialId": baseSubwalletId + getNextUserIdNumber();              *)
(*   "loopId", "rederivedId": the collision loop followed by a second      *)
(*       declaration of subwalletId from the digest without nonce; the     *)
(*       statements that build and store the address see the loop's value  *)
(*       ("loopId") or the second declaration's ("rederivedId").           *)
(***************************************************************************)
Variants == {"sequentialId", "loopId", "rederivedId"}

deriveSubwalletId(kind, adb, table, userId) ==
    LET loop == resolveSubwalletId(adb, table, userId)
    IN  IF kind = "sequentialId"
        THEN [thrown |-> FALSE, subwalletId |-> BASE_SUBWALLET_ID + adb.nextUserId,
              adb |-> [adb EXCEPT !.nextUserId = @ + 1]]
        ELSE IF loop.thrown
        THEN [thrown |-> TRUE, subwalletId |-> 0, adb |-> adb]
        ELSE IF kind = "loopId"
        THEN [thrown |-> FALSE, subwalletId |-> loop.subwalletId, adb |-> adb]
        ELSE [thrown |-> FALSE, subwalletId |-> digestPlain(table, userId), adb |-> adb]

\* calculateSubwalletRange
calculateSubwalletRange(baseId, userCount) ==
    IF userCount <= 0
    THEN [min |-> baseId, max |-> baseId]
    ELSE [min |-> baseId, max |-> baseId + userCount - 1]

AllocReturn(userId, thrown, address, derived, raced) ==
    [userId |-> userId, thrown |-> thrown, address |-> address, derived |-> derived,
     raced |-> raced]

NoReturn == AllocReturn("none", FALSE, Null, FALSE, FALSE)

\* derive, build the wallet, store the mapping
allocateNew(kind, adb, table, userId) ==
    LET d == deriveSubwalletId(kind, adb, table, userId)
    IN  IF d.thrown
        THEN [adb |-> d.adb, ret |-> AllocReturn(userId, TRUE, Null, TRUE, FALSE)]
        ELSE [adb |-> createUserAddress(d.adb, userId, walletAddress(d.subwalletId),
                                        d.subwalletId),
              ret |-> AllocReturn(userId, FALSE, walletAddress(d.subwalletId), TRUE, FALSE)]

\* the function from its existing-address check on
continueGenerate(kind, adb, table, userId, existingAddress) ==
    IF Truthy(existingAddress)
    THEN [adb |-> adb, ret |-> AllocReturn(userId, FALSE, existingAddress, FALSE, FALSE)]
    ELSE allocateNew(kind, adb, table, userId)

generateDepositAddress(kind, adb, table, userId) ==
    continueGenerate(kind, adb, table, userId, getAddressForUser(adb, userId))

\* generateBatchAddresses: one call after the other, a throw ends the batch
RECURSIVE generateBatchAddresses(_, _, _, _, _)
generateBatchAddresses(kind, adb, table, userIds, ret) ==
    IF userIds = <<>> THEN [adb |-> adb, ret |-> ret]
    ELSE LET r == generateDepositAddress(kind, adb, table, Head(userIds))
         IN  IF r.ret.thrown THEN r
             ELSE generateBatchAddresses(kind, r.adb, table, Tail(userIds), r.ret)

ADb ==
    [userToAddress |-> userToAddress, addressToUser |-> addressToUser,
     userToSubwalletId |-> userToSubwalletId, nextUserId |-> nextUserId]

IdleGen == [pc |-> "idle", userId |-> "none", existing |-> Null, raced |-> FALSE]

\* a generator right after construction
GeneratorFresh ==
    /\ userToAddress = EmptyMap
    /\ addressToUser = EmptyMap
    /\ userToSubwalletId = EmptyMap
    /\ nextUserId = 1
    /\ genCalls = [p \in Callers |-> IdleGen]
    /\ allocReturns = [p \in Callers |-> NoReturn]

PlainTable ==
    [first |-> [u \in Users |-> 7], k |-> maxAttempts, rest |-> 8, plain |-> [u \in Users |-> 7]]

\* the generator is not run
AddressIdle == GeneratorFresh /\ variant = "sequentialId" /\ digests = PlainTable

(***************************************************************************)
(* State                                                                   *)
(***************************************************************************)
Db == [processedTxs |-> processedTxs, pendingDeposits |-> pendingDeposits]

\* The chains the monitor is run against: accepted deposits, or one accepted
\* deposit among transactions that validation rejects or skips.
Chains ==
    { {tx \in Txs : tx.hash \in {"h1", "h2"}},
      {tx \in Txs : tx.hash \in {"h1", "h3", "h4", "h5", "h6", "h7"}} }

\* history value of a cycle that processed nothing
NoPoll(result, t) ==
    [at |-> t, result |-> result, delivered |-> {}, threw |-> {}, paid |-> {},
     creditThrew |-> {}]

\* a monitor constructed and not started: running is false
\* the loops that start() calls may begin on one monitor
LoopIds == 1..MaxStarts

\* no start() call yet; `stopped`: stop() was called since the loop began;
\* `resumed`: the loop began a cycle after that
NoLoop == [pc |-> "none", sleptAt |-> 0, stopped |-> FALSE, resumed |-> FALSE]

MonitorIdle ==
    [running |-> FALSE, pc |-> "notStarted", queue |-> <<>>, newestLt |-> 0, due |-> {},
     item |-> "none", loops |-> [l \in LoopIds |-> NoLoop]]

DepositFresh ==
    /\ monitor = MonitorIdle
    /\ processedTxs = {}
    /\ pendingDeposits = EmptyMap
    /\ lastProcessedLt = 0
    /\ credited = [h \in Hashes |-> 0]
    /\ firstSeen = EmptyMap
    /\ lastPoll = NoPoll("none", 0)

DepositInit == DepositFresh /\ chain \in Chains

\* the monitor of a wallet without transactions, never polled
DepositIdle == DepositFresh /\ chain = {}

Init ==
    /\ now = 0
    /\ DepositInit
    /\ WithdrawalIdle
    /\ AddressIdle

Tick ==
    /\ now < MaxTicks * TickMs
    /\ now' = now + TickMs
    /\ UNCHANGED <<depositVars, withdrawalVars, addressVars>>

creditedAfter(paid) ==
    [h \in Hashes |-> IF h \in paid THEN credited[h] + 1 ELSE credited[h]]

ProcessTransaction(tx, storeFails) ==
    LET db2 == processTransaction(Db, tx, now, storeFails)
    IN  /\ processedTxs' = db2.processedTxs
        /\ pendingDeposits' = db2.pendingDeposits
        /\ UNCHANGED <<now, lastProcessedLt, chain, credited, firstSeen, lastPoll, monitor,
                       withdrawalVars, addressVars>>

ProcessPendingDeposits(outcome) ==
    LET db2 == processPendingDeposits(Db, now, outcome)
        paid == creditedNow(pendingDeposits, now, outcome)
    IN  /\ \A h \in paid : credited[h] < MaxCredits
        /\ processedTxs' = db2.processedTxs
        /\ pendingDeposits' = db2.pendingDeposits
        /\ credited' = creditedAfter(paid)
        /\ UNCHANGED <<now, lastProcessedLt, chain, firstSeen, lastPoll, monitor,
                       withdrawalVars, addressVars>>

AllOk == [h \in Hashes |-> "ok"]

(***************************************************************************)
(* DepositMonitor.pollTransactions, one cycle of the loop of start().      *)
(* `transactions` is what client.getTransactions returns, newest first;    *)
(* `failing` are the hashes for which a store call of processTransaction   *)
(* throws; `client` is "ok", or the client call that throws.  The cycle is *)
(* taken to run within one clock step.                                     *)
(***************************************************************************)
reverse(s) == [i \in 1..Len(s) |-> s[Len(s) + 1 - i]]

\* mutant: the first transaction that fails ends the loop
RECURSIVE processAll_abortsOnFailure(_, _, _, _)
processAll_abortsOnFailure(db, txs, t, failing) ==
    IF txs = <<>> THEN db
    ELSE IF Head(txs).hash \in failing THEN db
    ELSE processAll_abortsOnFailure(processTransaction(db, Head(txs), t, FALSE),
                                    Tail(txs), t, failing)

RECURSIVE processAll(_, _, _, _)
processAll(db, txs, t, failing) ==
    IF txs = <<>> THEN db
    ELSE processAll(processTransaction(db, Head(txs), t, Head(txs).hash \in failing),
                    Tail(txs), t, failing)

\* history: a hash that enters the pending set for the first time is stamped
noteFirstSeen(seen, after, t) ==
    [h \in DOMAIN seen \cup DOMAIN after |-> IF h \in DOMAIN seen THEN seen[h] ELSE t]

hashesOf(transactions) == { transactions[i].hash : i \in 1..Len(transactions) }

\* start(): the next cycle begins no sooner than sleep(POLL_INTERVAL_MS) after the last
pollDue == lastPoll.result = "none" \/ now >= lastPoll.at + POLL_INTERVAL_MS

PollTransactions(transactions, failing, client, outcome) ==
    LET db1 == processAll(Db, reverse(transactions), now, failing)
        db2 == processPendingDeposits(db1, now, outcome)
        paid == creditedNow(db1.pendingDeposits, now, outcome)
        removed == removedNow(db1.pendingDeposits, now, outcome)
    IN  /\ pollDue
        /\ IF client = "getTransactionsFails"
             THEN /\ lastPoll' = NoPoll("failed", now)
                  /\ UNCHANGED <<processedTxs, pendingDeposits, lastProcessedLt, credited, firstSeen>>
           ELSE IF transactions = <<>>
             THEN /\ lastPoll' = NoPoll("empty", now)
                  /\ UNCHANGED <<processedTxs, pendingDeposits, lastProcessedLt, credited, firstSeen>>
           ELSE IF client = "getMasterchainInfoFails"
             THEN /\ processedTxs' = db1.processedTxs
                  /\ pendingDeposits' = db1.pendingDeposits
                  /\ lastProcessedLt' = transactions[1].lt
                  /\ firstSeen' = noteFirstSeen(firstSeen, db1.pendingDeposits, now)
                  /\ lastPoll' = [NoPoll("notAdvanced", now) EXCEPT
                                     !.delivered = hashesOf(transactions),
                                     !.threw = failing]
                  /\ UNCHANGED credited
           ELSE   /\ \A h \in paid : credited[h] < MaxCredits
                  /\ processedTxs' = db2.processedTxs
                  /\ pendingDeposits' = db2.pendingDeposits
                  /\ lastProcessedLt' = transactions[1].lt
                  /\ firstSeen' = noteFirstSeen(firstSeen, db1.pendingDeposits, now)
                  /\ credited' = creditedAfter(paid)
                  /\ lastPoll' = [at |-> now, result |-> "done",
                                  delivered |-> hashesOf(transactions), threw |-> failing,
                                  paid |-> paid,
                                  creditThrew |-> dueNow(db1.pendingDeposits, now) \ removed]
        /\ UNCHANGED <<now, chain, monitor, withdrawalVars, addressVars>>

\* what getTransactions may return: distinct transactions, newest first
Deliveries ==
    { s \in UNION { [1..n -> chain] : n \in 0..MaxDelivered } :
        \A i \in 1..Len(s), j \in 1..Len(s) : i < j => s[i].lt > s[j].lt }

Poll == \E transactions \in Deliveries : PollTransactions(transactions, {}, "ok", AllOk)

NextPoll == Tick \/ Poll

SpecPoll == Init /\ [][NextPoll]_vars

\* the poll loop with store and client calls that may throw
CreditThrows(pending, t) ==
    { [h \in Hashes |-> IF h \in DOMAIN f THEN f[h] ELSE "ok"] :
        f \in UNION { [bad -> CreditOutcomes \ {"ok"}] : bad \in SUBSET dueNow(pending, t) } }

PollF ==
    \E transactions \in Deliveries :
        \E failing \in SUBSET hashesOf(transactions) :
            \E outcome \in CreditThrows(pendingDeposits, now) :
                PollTransactions(transactions, failing, "ok", outcome)

NextPollFail == Tick \/ PollF

SpecPollFail == Init /\ [][NextPollFail]_vars

(***************************************************************************)
(* main and DepositMonitor.start, await by await.  A transaction is in     *)
(* progress from the first await of processTransaction to its return, a    *)
(* deposit from the creditUserAccount call to the return of                *)
(* removePendingDeposit.  stop() and the signal handlers of main run       *)
(* between any two steps.  A cycle takes no time, the sleep takes          *)
(* POLL_INTERVAL_MS.  The order of the deposits in the array of            *)
(* getPendingDeposits is not tracked: every order is taken.                *)
(***************************************************************************)
monitorStep(m) ==
    /\ monitor' = m
    /\ UNCHANGED <<now, processedTxs, pendingDeposits, lastProcessedLt, chain, credited,
                   firstSeen, lastPoll, withdrawalVars, addressVars>>

\* start(): running = true, then the first test of the loop
MonitorStart ==
    /\ monitor.pc = "notStarted"
    /\ monitorStep([monitor EXCEPT !.running = TRUE, !.pc = "loop"])

\* while (this.running) is false: start() returns
LoopReturns ==
    /\ monitor.pc = "loop"
    /\ ~monitor.running
    /\ monitorStep([monitor EXCEPT !.pc = "returned"])

\* the loop is entered and client.getTransactions resolves
GetTransactions(transactions) ==
    /\ monitor.pc = "loop"
    /\ monitor.running
    /\ IF transactions = <<>>
         THEN monitorStep([monitor EXCEPT !.pc = "sleeping"])
         ELSE monitorStep([monitor EXCEPT !.pc = "transactions",
                                          !.queue = reverse(transactions),
                                          !.newestLt = transactions[1].lt])

\* processTransaction is called and waits at its first await
BeginTransaction ==
    /\ monitor.pc = "transactions"
    /\ monitor.queue # <<>>
    /\ monitorStep([monitor EXCEPT !.pc = "inTransaction", !.item = Head(monitor.queue).hash])

\* processTransaction runs to its return
FinishTransaction ==
    LET db2 == processTransaction(Db, Head(monitor.queue), now, FALSE)
    IN  /\ monitor.pc = "inTransaction"
        /\ processedTxs' = db2.processedTxs
        /\ pendingDeposits' = db2.pendingDeposits
        /\ firstSeen' = noteFirstSeen(firstSeen, db2.pendingDeposits, now)
        /\ monitor' = [monitor EXCEPT !.pc = "transactions", !.queue = Tail(monitor.queue),
                                      !.item = "none"]
        /\ UNCHANGED <<now, lastProcessedLt, chain, credited, lastPoll, withdrawalVars, addressVars>>

\* after the last transaction: lastProcessedLt, getMasterchainInfo, getPendingDeposits
EndTransactions ==
    /\ monitor.pc = "transactions"
    /\ monitor.queue = <<>>
    /\ lastProcessedLt' = monitor.newestLt
    /\ monitor' = [monitor EXCEPT !.pc = "deposits", !.due = DOMAIN pendingDeposits]
    /\ UNCHANGED <<now, processedTxs, pendingDeposits, chain, credited, firstSeen, lastPoll,
                   withdrawalVars, addressVars>>

\* the next deposit of the array: passed over, or creditUserAccount returns
BeginCredit ==
    /\ monitor.pc = "deposits"
    /\ \E h \in monitor.due :
          IF isConfirmed(pendingDeposits[h], now)
          THEN /\ credited[h] < MaxCredits
               /\ credited' = creditedAfter({h})
               /\ monitor' = [monitor EXCEPT !.pc = "inDeposit", !.item = h,
                                             !.due = monitor.due \ {h}]
          ELSE /\ monitor' = [monitor EXCEPT !.due = monitor.due \ {h}]
               /\ UNCHANGED credited
    /\ UNCHANGED <<now, processedTxs, pendingDeposits, lastProcessedLt, chain, firstSeen, lastPoll,
                   withdrawalVars, addressVars>>

\* markTransactionProcessed and removePendingDeposit return
FinishCredit ==
    /\ monitor.pc = "inDeposit"
    /\ processedTxs' = markTransactionProcessed(processedTxs, monitor.item)
    /\ pendingDeposits' = removePendingDeposit(pendingDeposits, monitor.item)
    /\ monitor' = [monitor EXCEPT !.pc = "deposits", !.item = "none"]
    /\ UNCHANGED <<now, lastProcessedLt, chain, credited, firstSeen, lastPoll,
                   withdrawalVars, addressVars>>

\* processPendingDeposits and pollTransactions return, the sleep begins
EndDeposits ==
    /\ monitor.pc = "deposits"
    /\ monitor.due = {}
    /\ monitorStep([monitor EXCEPT !.pc = "sleeping"])

\* sleep(POLL_INTERVAL_MS) resolves
Wake ==
    /\ monitor.pc = "sleeping"
    /\ now + POLL_INTERVAL_MS <= MaxTicks * TickMs
    /\ now' = now + POLL_INTERVAL_MS
    /\ monitor' = [monitor EXCEPT !.pc = "loop"]
    /\ UNCHANGED <<processedTxs, pendingDeposits, lastProcessedLt, chain, credited, firstSeen,
                   lastPoll, withdrawalVars, addressVars>>

isAlive == monitor.pc \notin {"notStarted", "returned", "exited"}

\* stop()
MonitorStop ==
    /\ isAlive
    /\ monitor.running
    /\ monitorStep([monitor EXCEPT !.running = FALSE])

\* the SIGINT / SIGTERM handler of main: monitor.stop(); process.exit(0)
Signal ==
    /\ isAlive
    /\ monitorStep([monitor EXCEPT !.running = FALSE, !.pc = "exited"])

Fetch == \E transactions \in Deliveries : GetTransactions(transactions)

NextShutdown ==
    \/ MonitorStart \/ LoopReturns \/ Fetch \/ BeginTransaction \/ FinishTransaction
    \/ EndTransactions \/ BeginCredit \/ FinishCredit \/ EndDeposits \/ Wake
    \/ MonitorStop \/ Signal

SpecShutdown == Init /\ [][NextShutdown]_vars

(***************************************************************************)
(* DepositMonitor.start called more than once on one monitor, with stop()  *)
(* calls in between.  Each call runs its own loop over the shared running  *)
(* flag and store.  start() runs without a pause up to the first await of  *)
(* pollTransactions, and so does a loop from the end of its sleep; a cycle *)
(* is in progress from there until pollTransactions returns.  A cycle      *)
(* takes no time; the clock moves when a sleep ends.                       *)
(***************************************************************************)
isLooping(loop) == loop.pc \in {"polling", "sleeping"}

\* start(): running = true, the loop is entered, pollTransactions waits for the client
StartLoop(l) ==
    /\ monitor.loops[l].pc = "none"
    /\ \A k \in LoopIds : k < l => monitor.loops[k].pc # "none"
    /\ monitorStep([monitor EXCEPT !.running = TRUE, !.loops[l].pc = "polling"])

\* pollTransactions of loop l runs from the client's answer to its return, the sleep begins
PollEnds(l, transactions) ==
    LET db1 == processAll(Db, reverse(transactions), now, {})
        db2 == processPendingDeposits(db1, now, AllOk)
        paid == creditedNow(db1.pendingDeposits, now, AllOk)
        removed == removedNow(db1.pendingDeposits, now, AllOk)
    IN  /\ monitor.loops[l].pc = "polling"
        /\ monitor' = [monitor EXCEPT !.loops[l].pc = "sleeping", !.loops[l].sleptAt = now]
        /\ IF transactions = <<>>
             THEN /\ lastPoll' = NoPoll("empty", now)
                  /\ UNCHANGED <<processedTxs, pendingDeposits, lastProcessedLt, credited, firstSeen>>
             ELSE /\ \A h \in paid : credited[h] < MaxCredits
                  /\ processedTxs' = db2.processedTxs
                  /\ pendingDeposits' = db2.pendingDeposits
                  /\ lastProcessedLt' = transactions[1].lt
                  /\ firstSeen' = noteFirstSeen(firstSeen, db1.pendingDeposits, now)
                  /\ credited' = creditedAfter(paid)
                  /\ lastPoll' = [at |-> now, result |-> "done",
                                  delivered |-> hashesOf(transactions), threw |-> {},
                                  paid |-> paid,
                                  creditThrew |-> dueNow(db1.pendingDeposits, now) \ removed]
        /\ UNCHANGED <<now, chain, withdrawalVars, addressVars>>

\* sleep(POLL_INTERVAL_MS) of loop l resolves, no sooner than POLL_INTERVAL_MS after
\* it began, and while (this.running) is tested
LoopWakes(l) ==
    LET loop == monitor.loops[l]
        wakeAt == IF now >= loop.sleptAt + POLL_INTERVAL_MS THEN now
                  ELSE loop.sleptAt + POLL_INTERVAL_MS
    IN  /\ loop.pc = "sleeping"
        /\ wakeAt <= MaxTicks * TickMs
        /\ now' = wakeAt
        /\ monitor' = IF monitor.running
                       THEN [monitor EXCEPT !.loops[l].pc = "polling",
                                            !.loops[l].resumed = loop.resumed \/ loop.stopped]
                       ELSE [monitor EXCEPT !.loops[l].pc = "returned"]
        /\ UNCHANGED <<processedTxs, pendingDeposits, lastProcessedLt, chain, credited,
                       firstSeen, lastPoll, withdrawalVars, addressVars>>

\* stop(), while a loop runs
StopLoops ==
    /\ monitor.running
    /\ \E l \in LoopIds : isLooping(monitor.loops[l])
    /\ monitorStep([monitor EXCEPT
                       !.running = FALSE,
                       !.loops = [l \in LoopIds |->
                                    IF isLooping(@[l]) THEN [@[l] EXCEPT !.stopped = TRUE]
                                    ELSE @[l]]])

StartAgain == \E l \in LoopIds : StartLoop(l)

\* the client returns nothing, or one transaction
ShortDeliveries == { s \in Deliveries : Len(s) <= 1 }

CycleEnds == \E l \in LoopIds, transactions \in ShortDeliveries : PollEnds(l, transactions)

SleepEnds == \E l \in LoopIds : LoopWakes(l)

NextLoops == StartAgain \/ CycleEnds \/ SleepEnds \/ StopLoops

SpecLoops == Init /\ [][NextLoops]_vars

\* processTransaction and processPendingDeposits in any number and order, no store failure
Observe == \E tx \in chain : ProcessTransaction(tx, FALSE)

Advance == ProcessPendingDeposits(AllOk)

Next == Tick \/ Observe \/ Advance

Spec == Init /\ [][Next]_vars

\* the same over a store that maps sender addresses to users: getUserByAddress
\* resolves to null, as the stub does, or to a user
UserByAddress == <<"u", "9">>

LookupAnswers == {Null, UserByAddress}

ProcessTransactionWith(tx, byAddress) ==
    LET db2 == processTransactionWith(Db, tx, now, byAddress)
    IN  /\ processedTxs' = db2.processedTxs
        /\ pendingDeposits' = db2.pendingDeposits
        /\ UNCHANGED <<now, lastProcessedLt, chain, credited, firstSeen, lastPoll, monitor,
                       withdrawalVars, addressVars>>

ObserveResolved == \E tx \in chain, byAddress \in LookupAnswers : ProcessTransactionWith(tx, byAddress)

NextResolve == Tick \/ ObserveResolved \/ Advance

SpecResolve == Init /\ [][NextResolve]_vars

\* the same, with store calls that may throw
ObserveF == \E tx \in chain : ProcessTransaction(tx, TRUE)

AdvanceF ==
    \E outcome \in [DOMAIN pendingDeposits -> CreditOutcomes] : ProcessPendingDeposits(outcome)

NextFail == Tick \/ Observe \/ ObserveF \/ AdvanceF

SpecFail == Init /\ [][NextFail]_vars

(***************************************************************************)
(* The batch withdrawal processor, processBatch calls one after the other. *)
(***************************************************************************)
\* queues of n requests, ids 1..n, those in `bad` with a malformed address
Queue(n, bad) ==
    [i \in 1..n |-> Request(i, IF i \in bad THEN "malformed" ELSE "EQ-well-formed")]

LargestQueue == 300

QueueSizes == {0, 1, 2, MAX_BATCH_SIZE, MAX_BATCH_SIZE + 1, LargestQueue}

InitialQueues ==
    { Queue(n, bad) : n \in QueueSizes, bad \in {{}, {1}, {2}, 1..LargestQueue} }

\* withdrawal ids are unique: a new request gets an id never used before
freshId == LargestQueue + added + 1

AddTestWithdrawal(address) ==
    /\ added < MaxAdded
    /\ added' = added + 1
    /\ pendingWithdrawals' = addTestWithdrawal(pendingWithdrawals, Request(freshId, address))
    /\ UNCHANGED <<now, depositVars, addressVars, processedWithdrawals, lastQueryId, calls, sendCalls,
                   completions, failedCalls, lastResult>>

createdAtNow == now \div 1000

sendFailures == Cardinality({ i \in 1..Len(sendCalls) : sendCalls[i].status = "rejected" })

completionsAfter(done, withdrawals) ==
    LET ids == idSet(withdrawals)
    IN  [id \in DOMAIN done \cup ids |->
            (IF id \in DOMAIN done THEN done[id] ELSE 0) + (IF id \in ids THEN 1 ELSE 0)]

\* mutant: the closing loop also runs when wallet.sendBatch throws
ProcessBatch_completesOnThrow(sendOk) ==
    LET withdrawals == getPendingWithdrawals(pendingWithdrawals, MAX_BATCH_SIZE)
        messages == createWithdrawalMessages(withdrawals)
        next == getNextQueryId(lastQueryId)
        db2 == markAllCompleted(WDb, withdrawals)
    IN  /\ \A p \in Callers : calls[p].pc = "idle"
        /\ Len(messages) > 0
        /\ ~next.thrown
        /\ sendOk \/ sendFailures < MaxSendFailures
        /\ lastResult' = IF sendOk THEN "ok" ELSE "sendFailed"
        /\ failedCalls' = failedCalls \cup reportedFailed(withdrawals)
        /\ lastQueryId' = next.lastQueryId
        /\ sendCalls' = Append(sendCalls,
                          SendCall(messages, next.queryId, createdAtNow,
                                   IF sendOk THEN "accepted" ELSE "rejected"))
        /\ pendingWithdrawals' = db2.pendingWithdrawals
        /\ processedWithdrawals' = db2.processedWithdrawals
        /\ completions' = completionsAfter(completions, withdrawals)
        /\ UNCHANGED <<now, depositVars, addressVars, calls, added>>

\* processBatch from call to return; `sendOk` is whether wallet.sendBatch resolves
ProcessBatch(sendOk) ==
    LET withdrawals == getPendingWithdrawals(pendingWithdrawals, MAX_BATCH_SIZE)
        messages == createWithdrawalMessages(withdrawals)
        next == getNextQueryId(lastQueryId)
        db2 == markAllCompleted(WDb, withdrawals)
    IN  /\ \A p \in Callers : calls[p].pc = "idle"
        /\ IF Len(withdrawals) = 0
             THEN /\ lastResult' = "noPending"
                  /\ UNCHANGED <<pendingWithdrawals, processedWithdrawals, lastQueryId,
                                 sendCalls, completions, failedCalls>>
           ELSE IF Len(messages) = 0
             THEN /\ lastResult' = "noValid"
                  /\ failedCalls' = failedCalls \cup reportedFailed(withdrawals)
                  /\ UNCHANGED <<pendingWithdrawals, processedWithdrawals, lastQueryId,
                                 sendCalls, completions>>
           ELSE IF next.thrown
             THEN /\ lastResult' = "exhausted"
                  /\ failedCalls' = failedCalls \cup reportedFailed(withdrawals)
                  /\ UNCHANGED <<pendingWithdrawals, processedWithdrawals, lastQueryId,
                                 sendCalls, completions>>
           ELSE IF ~sendOk
             THEN /\ sendFailures < MaxSendFailures
                  /\ lastResult' = "sendFailed"
                  /\ failedCalls' = failedCalls \cup reportedFailed(withdrawals)
                  /\ lastQueryId' = next.lastQueryId
                  /\ sendCalls' = Append(sendCalls,
                                    SendCall(messages, next.queryId, createdAtNow, "rejected"))
                  /\ UNCHANGED <<pendingWithdrawals, processedWithdrawals, completions>>
           ELSE   /\ lastResult' = "ok"
                  /\ failedCalls' = failedCalls \cup reportedFailed(withdrawals)
                  /\ lastQueryId' = next.lastQueryId
                  /\ sendCalls' = Append(sendCalls,
                                    SendCall(messages, next.queryId, createdAtNow, "accepted"))
                  /\ pendingWithdrawals' = db2.pendingWithdrawals
                  /\ processedWithdrawals' = db2.processedWithdrawals
                  /\ completions' = completionsAfter(completions, withdrawals)
        /\ UNCHANGED <<now, depositVars, addressVars, calls, added>>

InitBatch ==
    /\ now = 0
    /\ DepositIdle
    /\ WalletFresh
    /\ AddressIdle
    /\ \E queue \in InitialQueues : ProcessorWith(queue)

AddRequest == \E address \in Addresses : AddTestWithdrawal(address)

BatchSent == ProcessBatch(TRUE)

BatchRejected == ProcessBatch(FALSE)

NextBatch == AddRequest \/ BatchSent \/ BatchRejected

SpecBatch == InitBatch /\ [][NextBatch]_vars

(***************************************************************************)
(* The processor constructed again for the same wallet (a restart, or a    *)
(* second instance): its database and lastQueryId start afresh, the wallet *)
(* keeps what was sent to it.  The clock advances by half timeout windows. *)
(***************************************************************************)
Restart ==
    /\ pendingWithdrawals' = <<>>
    /\ processedWithdrawals' = {}
    /\ lastQueryId' = QueryIdZero
    /\ calls' = [p \in Callers |-> IdleCall]
    /\ lastResult' = "none"
    /\ UNCHANGED <<now, depositVars, addressVars, added, sendCalls, completions, failedCalls>>

HalfWindowMs == (TIMEOUT * 1000) \div 2

TickWindow ==
    /\ now < MaxWindowTicks * HalfWindowMs
    /\ now' = now + HalfWindowMs
    /\ UNCHANGED <<depositVars, withdrawalVars, addressVars>>

SmallQueues == { Queue(n, bad) : n \in {0, 1, 2}, bad \in {{}, {1}} }

InitSmall ==
    /\ now = 0
    /\ DepositIdle
    /\ WalletFresh
    /\ AddressIdle
    /\ \E queue \in SmallQueues : ProcessorWith(queue)

NextRestart == AddRequest \/ BatchSent \/ BatchRejected \/ Restart \/ TickWindow

SpecRestart == InitSmall /\ [][NextRestart]_vars

(***************************************************************************)
(* processBatch calls that overlap: each caller runs from one await to the *)
(* next in one step.  The awaits of markWithdrawalProcessing touch no      *)
(* state and are folded into the step that follows them.                   *)
(***************************************************************************)
\* the call begins: getPendingWithdrawals runs, the caller waits for its promise
BeginBatch(p) ==
    /\ calls[p].pc = "idle"
    /\ calls' = [calls EXCEPT ![p] =
                    [pc |-> "fetched",
                     withdrawals |-> getPendingWithdrawals(pendingWithdrawals, MAX_BATCH_SIZE),
                     call |-> 0]]
    /\ UNCHANGED <<now, depositVars, addressVars, pendingWithdrawals, processedWithdrawals, lastQueryId,
                   added, sendCalls, completions, failedCalls, lastResult>>

\* from the fetched list to the wallet.sendBatch call, or to an early end
SubmitBatch(p) ==
    LET withdrawals == calls[p].withdrawals
        messages == createWithdrawalMessages(withdrawals)
        next == getNextQueryId(lastQueryId)
    IN  /\ calls[p].pc = "fetched"
        /\ IF Len(withdrawals) = 0
             THEN /\ lastResult' = "noPending"
                  /\ calls' = [calls EXCEPT ![p] = IdleCall]
                  /\ UNCHANGED <<lastQueryId, sendCalls, failedCalls>>
           ELSE IF Len(messages) = 0
             THEN /\ lastResult' = "noValid"
                  /\ failedCalls' = failedCalls \cup reportedFailed(withdrawals)
                  /\ calls' = [calls EXCEPT ![p] = IdleCall]
                  /\ UNCHANGED <<lastQueryId, sendCalls>>
           ELSE IF next.thrown
             THEN /\ lastResult' = "exhausted"
                  /\ failedCalls' = failedCalls \cup reportedFailed(withdrawals)
                  /\ calls' = [calls EXCEPT ![p] = IdleCall]
                  /\ UNCHANGED <<lastQueryId, sendCalls>>
           ELSE   /\ failedCalls' = failedCalls \cup reportedFailed(withdrawals)
                  /\ lastQueryId' = next.lastQueryId
                  /\ sendCalls' = Append(sendCalls,
                                    SendCall(messages, next.queryId, createdAtNow, "inflight"))
                  /\ calls' = [calls EXCEPT ![p] =
                                  [pc |-> "sending", withdrawals |-> withdrawals,
                                   call |-> Len(sendCalls) + 1]]
                  /\ UNCHANGED lastResult
        /\ UNCHANGED <<now, depositVars, addressVars, pendingWithdrawals, processedWithdrawals, added,
                       completions>>

\* one markWithdrawalCompleted of the closing loop, with the return after the last
completeHead(p, withdrawals) ==
    LET db2 == markWithdrawalCompleted(WDb, Head(withdrawals).withdrawalId)
    IN  /\ pendingWithdrawals' = db2.pendingWithdrawals
        /\ processedWithdrawals' = db2.processedWithdrawals
        /\ completions' = completionsAfter(completions, <<Head(withdrawals)>>)
        /\ IF Tail(withdrawals) = <<>>
             THEN calls' = [calls EXCEPT ![p] = IdleCall] /\ lastResult' = "ok"
             ELSE /\ calls' = [calls EXCEPT ![p] =
                                  [pc |-> "completing", withdrawals |-> Tail(withdrawals),
                                   call |-> calls[p].call]]
                  /\ UNCHANGED lastResult

\* wallet.sendBatch settles: it throws, or it returns and the closing loop begins
SendSettles(p, sendOk) ==
    /\ calls[p].pc = "sending"
    /\ IF sendOk
         THEN /\ sendCalls' = [sendCalls EXCEPT ![calls[p].call].status = "accepted"]
              /\ completeHead(p, calls[p].withdrawals)
         ELSE /\ sendFailures < MaxSendFailures
              /\ sendCalls' = [sendCalls EXCEPT ![calls[p].call].status = "rejected"]
              /\ calls' = [calls EXCEPT ![p] = IdleCall]
              /\ lastResult' = "sendFailed"
              /\ UNCHANGED <<pendingWithdrawals, processedWithdrawals, completions>>
    /\ UNCHANGED <<now, depositVars, addressVars, lastQueryId, added, failedCalls>>

CompleteNext(p) ==
    /\ calls[p].pc = "completing"
    /\ completeHead(p, calls[p].withdrawals)
    /\ UNCHANGED <<now, depositVars, addressVars, lastQueryId, added, sendCalls, failedCalls>>

Begin == \E p \in Callers : BeginBatch(p)

Submit == \E p \in Callers : SubmitBatch(p)

SendReturns == \E p \in Callers : SendSettles(p, TRUE)

SendThrows == \E p \in Callers : SendSettles(p, FALSE)

Complete == \E p \in Callers : CompleteNext(p)

NextOverlap == Begin \/ Submit \/ SendReturns \/ SendThrows \/ Complete

SpecOverlap == InitSmall /\ [][NextOverlap]_vars

(***************************************************************************)
(* The deposit address generator, calls one after the other.               *)
(***************************************************************************)
MaxBatchUsers == 2   \* user ids passed to one generateBatchAddresses call

storeAddressDb(adb) ==
    /\ userToAddress' = adb.userToAddress
    /\ addressToUser' = adb.addressToUser
    /\ userToSubwalletId' = adb.userToSubwalletId
    /\ nextUserId' = adb.nextUserId

noGenerateInProgress == \A p \in Callers : genCalls[p].pc = "idle"

\* generateDepositAddress from call to return
GenerateDepositAddress(p, userId) ==
    LET r == generateDepositAddress(variant, ADb, digests, userId)
    IN  /\ noGenerateInProgress
        /\ storeAddressDb(r.adb)
        /\ allocReturns' = [allocReturns EXCEPT ![p] = r.ret]
        /\ UNCHANGED <<now, depositVars, withdrawalVars, variant, digests, genCalls>>

UserIdLists == UNION { [1..n -> Users] : n \in 0..MaxBatchUsers }

GenerateBatchAddresses(p, userIds) ==
    LET r == generateBatchAddresses(variant, ADb, digests, userIds, allocReturns[p])
    IN  /\ noGenerateInProgress
        /\ storeAddressDb(r.adb)
        /\ allocReturns' = [allocReturns EXCEPT ![p] = r.ret]
        /\ UNCHANGED <<now, depositVars, withdrawalVars, variant, digests, genCalls>>

\* the generators that are run: every text, the hashing ones over every digest table
AllocInit ==
    /\ now = 0
    /\ DepositIdle
    /\ WithdrawalIdle
    /\ GeneratorFresh
    /\ variant \in Variants
    /\ IF variant = "sequentialId" THEN digests = PlainTable ELSE digests \in DigestTables

GenerateOne == \E userId \in Users : GenerateDepositAddress("a", userId)

GenerateBatch == \E userIds \in UserIdLists : GenerateBatchAddresses("a", userIds)

NextAlloc == GenerateOne \/ GenerateBatch

SpecAlloc == AllocInit /\ [][NextAlloc]_vars

(***************************************************************************)
(* The same, with createUserAddress also called on the database that       *)
(* getDatabase() hands out.                                                *)
(***************************************************************************)
StoreIds == {7, 8}

CreateUserAddress(userId, address, subwalletId) ==
    /\ noGenerateInProgress
    /\ storeAddressDb(createUserAddress(ADb, userId, address, subwalletId))
    /\ UNCHANGED <<now, depositVars, withdrawalVars, variant, digests, genCalls, allocReturns>>

StoreMapping ==
    \E userId \in Users, subwalletId \in StoreIds :
        CreateUserAddress(userId, walletAddress(subwalletId), subwalletId)

NextStore == GenerateOne \/ GenerateBatch \/ StoreMapping

SpecStore == AllocInit /\ [][NextStore]_vars

(***************************************************************************)
(* generateDepositAddress calls that overlap.  A call reads the existing   *)
(* address and waits for that promise; when it resumes it returns the      *)
(* address read, or derives the id and stores the mapping in one go        *)
(* (getAllMappings and the body of createUserAddress do not wait) and      *)
(* waits for createUserAddress; then it returns.                           *)
(***************************************************************************)
\* the calls that this call overlaps with before any of them has stored
racingWith(p, userId) ==
    { q \in Callers \ {p} :
        /\ genCalls[q].pc = "checked"
        /\ genCalls[q].userId = userId
        /\ ~Truthy(genCalls[q].existing) }

BeginGenerate(p, userId) ==
    LET existing == getAddressForUser(ADb, userId)
        rivals == IF Truthy(existing) THEN {} ELSE racingWith(p, userId)
    IN  /\ genCalls[p].pc = "idle"
        /\ genCalls' =
             [q \in Callers |->
                IF q = p THEN [pc |-> "checked", userId |-> userId, existing |-> existing,
                               raced |-> rivals # {}]
                ELSE IF q \in rivals THEN [genCalls[q] EXCEPT !.raced = TRUE]
                ELSE genCalls[q]]
        /\ UNCHANGED <<now, depositVars, withdrawalVars, variant, digests, userToAddress,
                       addressToUser, userToSubwalletId, nextUserId, allocReturns>>

ResumeGenerate(p) ==
    LET call == genCalls[p]
        r == continueGenerate(variant, ADb, digests, call.userId, call.existing)
    IN  /\ call.pc = "checked"
        /\ storeAddressDb(r.adb)
        /\ IF r.ret.derived /\ ~r.ret.thrown
             THEN /\ genCalls' = [genCalls EXCEPT ![p] =
                                    [call EXCEPT !.pc = "stored", !.existing = r.ret.address]]
                  /\ UNCHANGED allocReturns
             ELSE /\ genCalls' = [genCalls EXCEPT ![p] = IdleGen]
                  /\ allocReturns' = [allocReturns EXCEPT ![p] =
                                        [r.ret EXCEPT !.raced = call.raced]]
        /\ UNCHANGED <<now, depositVars, withdrawalVars, variant, digests>>

FinishGenerate(p) ==
    LET call == genCalls[p]
    IN  /\ call.pc = "stored"
        /\ genCalls' = [genCalls EXCEPT ![p] = IdleGen]
        /\ allocReturns' = [allocReturns EXCEPT ![p] =
                              AllocReturn(call.userId, FALSE, call.existing, TRUE, call.raced)]
        /\ UNCHANGED <<now, depositVars, withdrawalVars, variant, digests, userToAddress,
                       addressToUser, userToSubwalletId, nextUserId>>

BeginAlloc == \E p \in Callers, userId \in Users : BeginGenerate(p, userId)

ResumeAlloc == \E p \in Callers : ResumeGenerate(p)

FinishAlloc == \E p \in Callers : FinishGenerate(p)

NextAllocOverlap == BeginAlloc \/ ResumeAlloc \/ FinishAlloc

\* overlapping calls are run over the tables whose digests do not depend on the user
UniformTables ==
    { t \in DigestTables :
        /\ t.first["user_alice"] = t.first["user_bob"]
        /\ t.plain["user_alice"] = t.plain["user_bob"] }

OverlapInit ==
    /\ now = 0
    /\ DepositIdle
    /\ WithdrawalIdle
    /\ GeneratorFresh
    /\ variant \in Variants
    /\ IF variant = "sequentialId" THEN digests = PlainTable ELSE digests \in UniformTables

SpecAllocOverlap == OverlapInit /\ [][NextAllocOverlap]_vars

(***************************************************************************)
(* Deposit monitor: crediting                                              *)
(***************************************************************************)

\* C1: without store failures, creditUserAccount is invoked at most once per
\* transaction hash, whatever the number and order of processTransaction and
\* processPendingDeposits runs.
C1_CreditedAtMostOnce == \A h \in Hashes : credited[h] <= 1

\* a deposit that has been credited, marked processed and removed
C1_Witness ==
    \E h \in Hashes : credited[h] = 1 /\ h \in processedTxs /\ h \notin DOMAIN pendingDeposits

\* C2: when markTransactionProcessed or removePendingDeposit throws after
\* creditUserAccount has returned, the retry of a later cycle does not credit
\* the same transaction hash a second time.
C2_NoCreditOnRetry ==
    [][\A h \in Hashes : credited[h] >= 1 => credited'[h] = credited[h]]_vars

\* C3: observing a transaction whose hash is already recorded (pending or
\* processed) leaves the deposit store unchanged, the pending record's
\* timestamp and confirmations included.
C3_ObserveRecordedIsNoOp ==
    [][\A tx \in chain :
          ( /\ tx.hash \in processedTxs \cup DOMAIN pendingDeposits
            /\ ProcessTransaction(tx, FALSE) )
          => UNCHANGED <<processedTxs, pendingDeposits>>]_vars

\* C4: a deposit that entered the pending set is credited and removed once the
\* poll loop has completed a cycle at least MIN_CONFIRMATIONS blocks after the
\* deposit entered, also when the client delivers the transaction again.
C4_PendingIsCredited ==
    \A h \in DOMAIN firstSeen :
        (lastPoll.result = "done" /\ lastPoll.at >= firstSeen[h] + MIN_CONFIRMATIONS * BLOCK_MS)
        => (h \notin DOMAIN pendingDeposits /\ credited[h] >= 1)

(***************************************************************************)
(* Batch withdrawal processor                                              *)
(***************************************************************************)
acceptedCalls == { i \in 1..Len(sendCalls) : sendCalls[i].status = "accepted" }

batchIds(i) == { sendCalls[i].ids[k] : k \in 1..Len(sendCalls[i].ids) }

\* C5: over any sequence of processBatch calls, retries after a failed
\* sendBatch included, each withdrawal id is in at most one batch accepted by
\* sendBatch and is marked completed at most once.
C5_SubmittedAtMostOnce ==
    /\ \A i \in acceptedCalls, j \in acceptedCalls : i # j => batchIds(i) \cap batchIds(j) = {}
    /\ \A id \in DOMAIN completions : completions[id] <= 1

\* a batch that sendBatch rejected was sent again in a later call and accepted
C5_Witness ==
    \E i \in 1..Len(sendCalls), j \in acceptedCalls :
        /\ i < j
        /\ sendCalls[i].status = "rejected"
        /\ sendCalls[i].ids = sendCalls[j].ids
        /\ \A id \in batchIds(j) : id \in DOMAIN completions

\* C7: the query ids returned by successive getNextQueryId calls of one
\* processor are strictly increasing, hence pairwise distinct; the id of a
\* processBatch whose sendBatch failed is not returned again.
C7_QueryIdsIncrease ==
    \A i \in 1..Len(sendCalls), j \in 1..Len(sendCalls) :
        i < j => sendCalls[i].queryId < sendCalls[j].queryId

\* an id was spent on a rejected batch, and later ids went past a shift boundary
C7_Witness ==
    /\ Len(sendCalls) >= 3
    /\ sendCalls[1].status = "rejected"
    /\ sendCalls[Len(sendCalls)].queryId >= 2 ^ BIT_NUMBER_SIZE

messagesToSend == createWithdrawalMessages(getPendingWithdrawals(pendingWithdrawals, MAX_BATCH_SIZE))

\* C9: when lastQueryId.hasNext() is false and there are messages to send,
\* processBatch ends with the exhaustion error, sendBatch is not called,
\* lastQueryId is unchanged and no withdrawal is completed or leaves the
\* pending set.
C9_ExhaustionIsHardStop ==
    [][((BatchSent \/ BatchRejected) /\ ~hasNext(lastQueryId) /\ Len(messagesToSend) > 0)
        => /\ lastResult' = "exhausted"
           /\ UNCHANGED <<lastQueryId, sendCalls, pendingWithdrawals, processedWithdrawals,
                          completions>>]_vars

\* a processBatch call ended with the exhaustion error with withdrawals pending
C9_Witness ==
    /\ lastResult = "exhausted"
    /\ ~hasNext(lastQueryId)
    /\ Len(messagesToSend) > 0

\* C10: every wallet.sendBatch call carries at least 1 and at most 254 messages.
C10_BatchSize ==
    \A i \in 1..Len(sendCalls) : 1 <= sendCalls[i].n /\ sendCalls[i].n <= MAX_BATCH_SIZE

\* a full batch was cut from a longer queue, the rest still pending
C10_Witness ==
    /\ added = 0
    /\ Len(pendingWithdrawals) > 0
    /\ \E i \in acceptedCalls : sendCalls[i].n = MAX_BATCH_SIZE

\* the batches the wallet was handed and did not reject
submittedCalls == { i \in 1..Len(sendCalls) : sendCalls[i].status # "rejected" }

\* C6: when processBatch calls overlap, at most one batch submission is in
\* flight, and no withdrawal id is in two submitted batches.
C6_SingleSubmissionInFlight ==
    /\ Cardinality({ p \in Callers : calls[p].pc = "sending" }) <= 1
    /\ \A i \in submittedCalls, j \in submittedCalls : i # j => batchIds(i) \cap batchIds(j) = {}

\* C8: within one timeout window no query id is used for two submissions to
\* the wallet, also when the processor is constructed again for that wallet.
C8_NoQueryIdReuseInWindow ==
    \A i \in acceptedCalls, j \in acceptedCalls :
        (i < j /\ sendCalls[i].queryId = sendCalls[j].queryId)
        => sendCalls[j].createdAt - sendCalls[i].createdAt >= TIMEOUT

fetched == getPendingWithdrawals(pendingWithdrawals, MAX_BATCH_SIZE)

allAddressesParse(withdrawals) ==
    \A i \in 1..Len(withdrawals) : addressParses(withdrawals[i].address)

noAddressParses(withdrawals) ==
    \A i \in 1..Len(withdrawals) : ~addressParses(withdrawals[i].address)

lastSendCall == sendCalls[Len(sendCalls)]

\* C11: with n >= 1 pending withdrawals, all with valid addresses, and a query
\* id left, a processBatch call whose sendBatch returns sends exactly
\* min(n, 254) messages in one sendBatch call under the one next query id, and
\* n - min(n, 254) withdrawals remain pending.
C11_BatchOfMin ==
    [][( /\ BatchSent
         /\ Len(pendingWithdrawals) >= 1
         /\ allAddressesParse(pendingWithdrawals)
         /\ hasNext(lastQueryId) )
        => /\ Len(sendCalls') = Len(sendCalls) + 1
           /\ sendCalls'[Len(sendCalls')].n = Min(Len(pendingWithdrawals), MAX_BATCH_SIZE)
           /\ sendCalls'[Len(sendCalls')].queryId = getQueryId(getNext(lastQueryId))
           /\ lastQueryId' = getNext(lastQueryId)
           /\ Len(pendingWithdrawals') =
                 Len(pendingWithdrawals) - Min(Len(pendingWithdrawals), MAX_BATCH_SIZE)]_vars

\* the largest queue after its first batch: 254 sent under one id, the rest pending
C11_Witness ==
    /\ added = 0
    /\ lastResult = "ok"
    /\ failedCalls = {}
    /\ Len(sendCalls) = 1
    /\ sendCalls[1].n = MAX_BATCH_SIZE
    /\ lastQueryId = getNext(QueryIdZero)
    /\ Len(pendingWithdrawals) = LargestQueue - MAX_BATCH_SIZE

\* C12: a processBatch call that finds no pending withdrawal, or only fetched
\* withdrawals whose address does not parse, leaves lastQueryId unchanged and
\* does not call sendBatch.
C12_NoIdForEmptyBatch ==
    [][((BatchSent \/ BatchRejected) /\ noAddressParses(fetched))
        => UNCHANGED <<lastQueryId, sendCalls>>]_vars

\* a call over a queue of unparseable addresses ended early, nothing sent
C12_Witness ==
    /\ lastResult = "noValid"
    /\ failedCalls # {}
    /\ sendCalls = <<>>
    /\ lastQueryId = QueryIdZero

\* C13: a fetched withdrawal whose address does not parse is reported through
\* markWithdrawalFailed and gets no message, and every fetched withdrawal with
\* a valid address is in the batch that is sent.
C13_FailureIsIsolated ==
    [][( /\ BatchSent \/ BatchRejected
         /\ Len(messagesToSend) > 0
         /\ hasNext(lastQueryId) )
        => /\ reportedFailed(fetched) \subseteq failedCalls'
           /\ Len(sendCalls') = Len(sendCalls) + 1
           /\ { sendCalls'[Len(sendCalls')].ids[k] : k \in 1..sendCalls'[Len(sendCalls')].n }
                = { fetched[i].withdrawalId :
                      i \in { j \in 1..Len(fetched) : addressParses(fetched[j].address) } }]_vars

\* a batch went out without its malformed member, which was reported
C13_Witness ==
    /\ Len(sendCalls) >= 1
    /\ lastSendCall.n >= 1
    /\ \E id \in failedCalls : \A k \in 1..lastSendCall.n : lastSendCall.ids[k] # id
    /\ \E id \in failedCalls : \E k \in 1..lastSendCall.n : lastSendCall.ids[k] > id

\* C14: the withdrawals marked completed are exactly those that were in a
\* batch sendBatch accepted; a withdrawal reported through markWithdrawalFailed
\* is not marked completed.
C14_CompletedAreTheSent ==
    /\ processedWithdrawals = UNION { batchIds(i) : i \in acceptedCalls }
    /\ processedWithdrawals \cap failedCalls = {}

(***************************************************************************)
(* Deposit address generator                                               *)
(***************************************************************************)
allocatedUsers == DOMAIN userToAddress

\* C15: distinct user ids have distinct stored subwallet ids and distinct
\* stored addresses, after any sequence of generateDepositAddress calls.
C15_DistinctPerUser ==
    \A u \in allocatedUsers, v \in allocatedUsers :
        u # v => /\ userToSubwalletId[u] # userToSubwalletId[v]
                 /\ userToAddress[u] # userToAddress[v]

\* C16: a generateDepositAddress call for the user id of the call before it,
\* which returned an address, returns that address again, derives no id and
\* writes nothing to the mapping store.
C16_RepeatReturnsStored ==
    [][\A userId \in Users :
          ( /\ GenerateDepositAddress("a", userId)
            /\ allocReturns["a"].userId = userId
            /\ ~allocReturns["a"].thrown )
          => /\ allocReturns'["a"].address = allocReturns["a"].address
             /\ ~allocReturns'["a"].thrown
             /\ ~allocReturns'["a"].derived
             /\ UNCHANGED <<userToAddress, addressToUser, userToSubwalletId, nextUserId>>]_vars

\* a second call has returned the stored address of its user
C16_Witness ==
    /\ allocReturns["a"].userId \in allocatedUsers
    /\ ~allocReturns["a"].derived
    /\ allocReturns["a"].address = userToAddress[allocReturns["a"].userId]

addressesOf(userId) == { ad \in DOMAIN addressToUser : addressToUser[ad] = userId }

\* C17: two generateDepositAddress calls for one user id that both ran the
\* existing-address check before either stored a mapping return the same
\* address, and that address is the only one mapped to the user.
C17_OverlapIsAtomic ==
    ( /\ allocReturns["a"].raced
      /\ allocReturns["b"].raced
      /\ allocReturns["a"].userId = allocReturns["b"].userId )
    => /\ ~allocReturns["a"].thrown
       /\ ~allocReturns["b"].thrown
       /\ allocReturns["a"].address = allocReturns["b"].address
       /\ userToAddress[allocReturns["a"].userId] = allocReturns["a"].address
       /\ addressesOf(allocReturns["a"].userId) = {allocReturns["a"].address}

\* C18: once a user id has a stored subwallet id and address, no operation of
\* the generator or its database changes them, and no stored address is
\* mapped to another user.
C18_NeverReassigned ==
    [][/\ \A u \in allocatedUsers :
             /\ u \in DOMAIN userToAddress'
             /\ userToAddress'[u] = userToAddress[u]
             /\ userToSubwalletId'[u] = userToSubwalletId[u]
       /\ \A ad \in DOMAIN addressToUser :
             /\ ad \in DOMAIN addressToUser'
             /\ addressToUser'[ad] = addressToUser[ad]]_vars

allNonces == 0..(maxAttempts - 1)

allCandidatesCollide(userId) ==
    LET taken == storedSubwalletIds(ADb)
    IN  \A n \in allNonces : collides(taken, candidate(digests, userId, n))

firstFreeCandidate(userId) ==
    candidate(digests, userId,
              firstFreeNonce(storedSubwalletIds(ADb), digests, userId, allNonces))

\* C19: in the texts with the collision loop, a generateDepositAddress call
\* for a user without address fails if and only if the candidates of all the
\* nonces 0..maxAttempts-1 collide with a stored subwallet id, and otherwise
\* stores the first candidate that does not collide.
C19_ExhaustedIffAllCollide ==
    [][\A userId \in Users \ allocatedUsers :
          (GenerateDepositAddress("a", userId) /\ variant # "sequentialId")
          => /\ allocReturns'["a"].thrown <=> allCandidatesCollide(userId)
             /\ ~allCandidatesCollide(userId)
                  => /\ userId \in DOMAIN userToSubwalletId'
                     /\ userToSubwalletId'[userId] = firstFreeCandidate(userId)]_vars

\* C20: no stored subwallet id is 0.
C20_NoZeroSubwalletId == \A u \in DOMAIN userToSubwalletId : userToSubwalletId[u] # 0

\* C27: the query ids that overlapping processBatch calls pass to
\* wallet.sendBatch are pairwise distinct, under every interleaving.
C27_DistinctQueryIds ==
    \A i \in 1..Len(sendCalls), j \in 1..Len(sendCalls) :
        i # j => sendCalls[i].queryId # sendCalls[j].queryId

\* both callers wait for wallet.sendBatch, each with its own call
C27_Witness ==
    /\ \A p \in Callers : calls[p].pc = "sending"
    /\ \A p \in Callers, q \in Callers : p # q => calls[p].call # calls[q].call

\* the positions of the id space that may be handed out: all but the last
IdSpaceCeiling == (MaxShift + 1) * (MaxBitNumber + 1) - 1

\* C28: a freshly constructed processor hands out every id of the usable space,
\* beginning with position zero: the first id passed to wallet.sendBatch is that
\* of position zero, and getNextQueryId has succeeded as many times as the
\* documented ceiling when it fails.
C28_WholeIdSpaceUsed ==
    /\ Len(sendCalls) >= 1 => sendCalls[1].queryId = getQueryId(QueryIdZero)
    /\ lastResult = "exhausted" => Len(sendCalls) = IdSpaceCeiling

\* C29: a processBatch call whose wallet.sendBatch throws ends with the error,
\* marks no withdrawal completed and leaves the pending list as it was, so the
\* next call fetches the same withdrawals.
C29_SendFailureKeepsPending ==
    [][( /\ Len(sendCalls') = Len(sendCalls) + 1
         /\ sendCalls'[Len(sendCalls')].status = "rejected" )
       => /\ lastResult' = "sendFailed"
          /\ UNCHANGED <<pendingWithdrawals, processedWithdrawals, completions>>
          /\ getPendingWithdrawals(pendingWithdrawals', MAX_BATCH_SIZE)
               = getPendingWithdrawals(pendingWithdrawals, MAX_BATCH_SIZE)]_vars

\* wallet.sendBatch has just thrown and the withdrawals of the call are pending
C29_Witness ==
    /\ lastResult = "sendFailed"
    /\ Len(sendCalls) >= 1
    /\ sendCalls[Len(sendCalls)].status = "rejected"
    /\ batchIds(Len(sendCalls)) \subseteq idSet(pendingWithdrawals)
    /\ DOMAIN completions = {}

\* C21: for every user with an address, identifyUser of the address that
\* generateDepositAddress returns for the user is that user, whatever was
\* allocated for other users.
C21_IdentifyRoundTrip ==
    \A u \in allocatedUsers :
        /\ getAddressForUser(ADb, u) \in DOMAIN addressToUser
        /\ identifyUser(ADb, getAddressForUser(ADb, u)) = u

(***************************************************************************)
(* Deposit monitor: validation                                             *)
(***************************************************************************)
isInbound(tx) == tx.inMessage = "internal"

\* C22: processTransaction of an inbound transaction not yet processed turns
\* it away at the amount check exactly when its amount is below
\* MIN_DEPOSIT_AMOUNT: below, it is marked processed and does not enter the
\* pending set; at the minimum or above, a transaction that passes the other
\* checks enters the pending set and is not marked processed.
C22_AmountCheck ==
    [][\A tx \in chain :
          ( /\ ProcessTransaction(tx, FALSE)
            /\ isInbound(tx)
            /\ tx.hash \notin processedTxs )
          => /\ tx.coins < MIN_DEPOSIT_AMOUNT
                  => /\ tx.hash \in processedTxs'
                     /\ tx.hash \notin DOMAIN pendingDeposits'
             /\ ( /\ tx.coins >= MIN_DEPOSIT_AMOUNT
                  /\ tx.descType = "generic"
                  /\ ~tx.aborted
                  /\ Truthy(resolveUser(tx)) )
                  => /\ tx.hash \in DOMAIN pendingDeposits'
                     /\ tx.hash \notin processedTxs']_vars

\* 999,999,999 was turned away and 1,000,000,000 is pending
C22_Witness ==
    /\ \E tx \in chain : /\ tx.coins = MIN_DEPOSIT_AMOUNT - 1
                         /\ tx.hash \in processedTxs
                         /\ tx.hash \notin DOMAIN pendingDeposits
    /\ \E tx \in chain : /\ tx.coins = MIN_DEPOSIT_AMOUNT
                         /\ tx.hash \in DOMAIN pendingDeposits

hasRecognizedComment(tx) ==
    /\ Truthy(extractComment(tx))
    /\ startsWith(extractComment(tx), DEPOSIT_PREFIX)

\* C23: a deposit whose sender matches no deposit address and whose comment
\* is absent or not of the form DEPOSIT:<user id> never enters the pending set
\* and is never credited.
C23_UnrecognizedIsRejected ==
    \A tx \in chain :
        (~Truthy(getUserByAddress(tx.src)) /\ ~hasRecognizedComment(tx))
        => /\ tx.hash \notin DOMAIN pendingDeposits
           /\ credited[tx.hash] = 0

\* C24: a deposit is credited only in a step taken when its estimated
\* confirmations are at least MIN_CONFIRMATIONS, that is no earlier than
\* MIN_CONFIRMATIONS * BLOCK_MS after the timestamp of its pending record.
C24_CreditNeedsConfirmations ==
    [][\A h \in Hashes :
          credited'[h] > credited[h]
          => /\ h \in DOMAIN pendingDeposits
             /\ estimatedConfirmations(pendingDeposits[h], now) >= MIN_CONFIRMATIONS
             /\ now - pendingDeposits[h].timestamp >= MIN_CONFIRMATIONS * BLOCK_MS]_vars

\* a deposit was credited, with store failures around
C24_Witness ==
    /\ now >= MIN_CONFIRMATIONS * BLOCK_MS
    /\ \E h \in Hashes : credited[h] >= 1 /\ h \in DOMAIN pendingDeposits

\* what processTransaction leaves behind for a transaction it ran through
isHandled(tx, processed, pending) ==
    \/ ~isInbound(tx)
    \/ tx.hash \in processed
    \/ tx.hash \in DOMAIN pending

\* C25: after a poll, every transaction of the poll whose processing did not
\* throw has been processed, whatever threw for the others; and every deposit
\* that passed the confirmation test of the cycle and whose try block did not
\* throw has been credited, marked and removed, whatever threw for the others.
C25_FailuresAreIsolated ==
    /\ lastPoll.result \in {"done", "notAdvanced"}
         => \A tx \in chain :
               tx.hash \in lastPoll.delivered \ lastPoll.threw
               => isHandled(tx, processedTxs, pendingDeposits)
    /\ lastPoll.result = "done"
         => /\ \A h \in DOMAIN pendingDeposits :
                  isConfirmed(pendingDeposits[h], lastPoll.at) => h \in lastPoll.creditThrew
            /\ \A h \in lastPoll.paid \ lastPoll.creditThrew :
                  /\ credited[h] >= 1
                  /\ h \in processedTxs
                  /\ h \notin DOMAIN pendingDeposits

\* a poll of two transactions in which the one processed first threw and the
\* other was processed
C25_Witness ==
    /\ lastPoll.result = "done"
    /\ \E tx \in chain, other \in chain :
          /\ tx.lt < other.lt
          /\ {tx.hash, other.hash} \subseteq lastPoll.delivered
          /\ tx.hash \in lastPoll.threw
          /\ other.hash \notin lastPoll.threw
          /\ ~isHandled(tx, processedTxs, pendingDeposits)
          /\ other.hash \in DOMAIN pendingDeposits
          /\ firstSeen[other.hash] = lastPoll.at

\* C26: when start() has returned or the process has exited after a stop
\* request, no transaction and no deposit is left in progress, and every
\* deposit that entered the pending set and was not credited is still there.
C26_ShutdownIsCooperative ==
    monitor.pc \in {"returned", "exited"}
    => /\ monitor.item = "none"
       /\ \A h \in DOMAIN firstSeen : credited[h] = 0 => h \in DOMAIN pendingDeposits

isRejectedAtValidation(tx) ==
    /\ isInbound(tx)
    /\ \/ tx.coins < MIN_DEPOSIT_AMOUNT
       \/ tx.descType # "generic"
       \/ tx.aborted
       \/ ~Truthy(resolveUser(tx))

\* C30: a transaction that processTransaction turns away at validation (amount
\* below the minimum, aborted or non-generic description, no user identified)
\* is marked processed by the step that observes it, stays marked, is never in
\* the pending set and is never credited, also when it is observed again.
C30_RejectedStaysRejected ==
    /\ [](\A tx \in chain :
            isRejectedAtValidation(tx)
            => LET after == processTransaction(Db, tx, now, FALSE)
               IN  /\ tx.hash \in after.processedTxs
                   /\ tx.hash \notin DOMAIN after.pendingDeposits
                   /\ tx.hash \notin DOMAIN pendingDeposits
                   /\ credited[tx.hash] = 0)
    /\ [][\A tx \in chain :
            (isRejectedAtValidation(tx) /\ tx.hash \in processedTxs)
            => tx.hash \in processedTxs']_vars

\* every kind of rejected transaction was observed, next to a credited deposit
C30_Witness ==
    /\ \E tx \in chain : tx.coins < MIN_DEPOSIT_AMOUNT /\ tx.hash \in processedTxs
    /\ \E tx \in chain : tx.aborted /\ tx.hash \in processedTxs
    /\ \E tx \in chain : tx.descType # "generic" /\ tx.hash \in processedTxs
    /\ \E tx \in chain : /\ isInbound(tx) /\ tx.coins >= MIN_DEPOSIT_AMOUNT
                         /\ ~Truthy(resolveUser(tx)) /\ tx.hash \in processedTxs
    /\ \E h \in Hashes : credited[h] = 1 /\ h \in processedTxs

\* C31: a transaction that enters the pending set is attributed to the user
\* getUserByAddress resolved, whatever its comment says, and to the user of the
\* comment only when getUserByAddress resolved to none.
C31_AddressBeforeMemo ==
    [][\A tx \in chain, byAddress \in LookupAnswers :
          ( /\ ProcessTransactionWith(tx, byAddress)
            /\ tx.hash \notin DOMAIN pendingDeposits
            /\ tx.hash \in DOMAIN pendingDeposits' )
          => pendingDeposits'[tx.hash].userId =
                IF Truthy(byAddress) THEN byAddress ELSE getUserByMemo(extractComment(tx))]_vars

\* a deposit with a comment naming one user is pending for the user of its address
C31_Witness ==
    \E tx \in chain :
        /\ Truthy(extractComment(tx))
        /\ getUserByMemo(extractComment(tx)) # UserByAddress
        /\ tx.hash \in DOMAIN pendingDeposits
        /\ pendingDeposits[tx.hash].userId = UserByAddress

\* C32: after every poll cycle in which the client call succeeded, also one in
\* which getTransactions returned no transactions, no deposit that had reached
\* the confirmation threshold at the time of the cycle is still pending.
C32_EveryCycleAdvances ==
    lastPoll.result \in {"empty", "done"}
    => \A h \in DOMAIN pendingDeposits : ~isConfirmed(pendingDeposits[h], lastPoll.at)

\* C33: at most one pollTransactions execution is in progress on one
\* monitor, also when start() is called more than once or again after stop().
C33_OnePollInProgress ==
    Cardinality({ l \in LoopIds : monitor.loops[l].pc = "polling" }) <= 1

\* C34: a loop that was running when stop() was called begins no poll cycle
\* after that call.
C34_StoppedLoopExits ==
    \A l \in LoopIds : ~monitor.loops[l].resumed

parseablePending ==
    { pendingWithdrawals[i].withdrawalId :
        i \in { j \in 1..Len(pendingWithdrawals) : addressParses(pendingWithdrawals[j].address) } }

\* C35: a processBatch call whose send succeeds, made while a withdrawal with a
\* parseable address is pending and a query id is left, takes withdrawals out
\* of the pending list, however many pending addresses do not parse.  (A call
\* that leaves the list and the query id as they were is repeated unchanged by
\* every later call, so the parseable withdrawal is never submitted.)
C35_ValidNotBlocked ==
    [][(BatchSent /\ parseablePending # {} /\ hasNext(lastQueryId))
       => pendingWithdrawals' # pendingWithdrawals]_vars

passesValidation(tx) ==
    /\ isInbound(tx)
    /\ tx.coins >= MIN_DEPOSIT_AMOUNT
    /\ tx.descType = "generic"
    /\ ~tx.aborted
    /\ Truthy(resolveUser(tx))

\* C36: a poll in which processTransaction throws for a transaction that was
\* neither processed nor pending leaves it neither processed nor pending, and
\* processTransaction of the same transaction delivered again validates it:
\* it records the deposit if the transaction passes, and marks it if not.
C36_FailedIsRetried ==
    [][\A tx \in chain :
          ( /\ lastPoll' # lastPoll
            /\ tx.hash \in lastPoll'.threw
            /\ tx.hash \notin processedTxs
            /\ tx.hash \notin DOMAIN pendingDeposits )
          => LET left == [processedTxs |-> processedTxs', pendingDeposits |-> pendingDeposits']
                 after == processTransaction(left, tx, now', FALSE)
             IN  /\ tx.hash \notin processedTxs'
                 /\ tx.hash \notin DOMAIN pendingDeposits'
                 /\ passesValidation(tx) => tx.hash \in DOMAIN after.pendingDeposits
                 /\ isRejectedAtValidation(tx) => tx.hash \in after.processedTxs]_vars

\* processTransaction threw for a deposit that passes validation, in the last
\* poll, and the deposit is neither marked nor pending
C36_Witness ==
    \E tx \in chain :
        /\ passesValidation(tx)
        /\ tx.hash \in lastPoll.threw
        /\ tx.hash \notin processedTxs
        /\ tx.hash \notin DOMAIN pendingDeposits

\* C37: in every state of AddressMappingDatabase, userToAddress and
\* userToSubwalletId have the same keys, and addressToUser[a] = u exactly when
\* userToAddress[u] = a.
C37_MapsAgree ==
    /\ DOMAIN userToAddress = DOMAIN userToSubwalletId
    /\ \A u \in DOMAIN userToAddress :
          /\ userToAddress[u] \in DOMAIN addressToUser
          /\ addressToUser[userToAddress[u]] = u
    /\ \A a \in DOMAIN addressToUser :
          /\ addressToUser[a] \in DOMAIN userToAddress
          /\ userToAddress[addressToUser[a]] = a

\* user counts of no user
EmptyCounts == {-1, 0}

\* C39: every subwallet id stored for the N users of the generator lies in
\* calculateSubwalletRange(BASE_SUBWALLET_ID, N) = [base, base + N - 1], and for
\* N <= 0 the range is min = max = base.
C39_IdsWithinRange ==
    LET range == calculateSubwalletRange(BASE_SUBWALLET_ID, Cardinality(allocatedUsers))
    IN  /\ \A u \in DOMAIN userToSubwalletId :
              range.min <= userToSubwalletId[u] /\ userToSubwalletId[u] <= range.max
        /\ \A n \in EmptyCounts :
              calculateSubwalletRange(BASE_SUBWALLET_ID, n)
                = [min |-> BASE_SUBWALLET_ID, max |-> BASE_SUBWALLET_ID]

\* C38: after every poll cycle that ran to its end, no hash is both in
\* processedTxs and in pendingDeposits.
C38_ProcessedNotPending ==
    lastPoll.result \in {"done", "empty", "notAdvanced"}
    => processedTxs \cap DOMAIN pendingDeposits = {}

=============================================================================
